---- MODULE Spec2Model ----
(***************************************************************************)
(* Model of the FitBuddy / code-explainer relay server (server.js).        *)
(* The line numbers in the comments are those of the revision with the    *)
(* explain routes; the earlier revision holds the same callGemini,         *)
(* localFallback and /api/chat handler.                                    *)
(*                                                                         *)
(* Texts are sequences of segments.  Texts that the program inspects       *)
(* character by character (chat messages, upstream answers) are sequences  *)
(* of one-character strings; the fixed literals of the source that are     *)
(* only passed along (canned replies, prompt templates, error messages)    *)
(* are one-segment sequences holding the literal.                          *)
(***************************************************************************)
EXTENDS Integers, Sequences, FiniteSets, TLC

(***************************************************************************)
(* Characters and JavaScript string primitives                             *)
(***************************************************************************)

UpperLetters == <<"A","B","C","D","E","F","G","H","I","J","K","L","M",
                  "N","O","P","Q","R","S","T","U","V","W","X","Y","Z">>
LowerLetters == <<"a","b","c","d","e","f","g","h","i","j","k","l","m",
                  "n","o","p","q","r","s","t","u","v","w","x","y","z">>
Digits == {"0","1","2","3","4","5","6","7","8","9"}

Range(s) == {s[i] : i \in DOMAIN s}

\* \s of a JavaScript regular expression, and the set String.prototype.trim strips
IsWs(c) == c \in {" ", "\n", "\t", "\r"}

\* [.?!] : the sentence terminators of the splitter's lookbehind
IsTerminator(c) == c \in {".", "?", "!"}

\* \w of a JavaScript regular expression
WordChars == Range(UpperLetters) \cup Range(LowerLetters) \cup Digits \cup {"_"}
IsWordChar(c) == c \in WordChars

\* String.prototype.toLowerCase on one character
LowerOf == [c \in Range(UpperLetters) |->
                LowerLetters[CHOOSE i \in 1..26 : UpperLetters[i] = c]]
LowerChar(c) == IF c \in DOMAIN LowerOf THEN LowerOf[c] ELSE c

ToLowerCase(s) == [i \in 1..Len(s) |-> LowerChar(s[i])]

\* first position from i on that holds no white space (Len(s) + 1 if there is none)
RECURSIVE SkipWs(_, _)
SkipWs(s, i) == IF i <= Len(s) /\ IsWs(s[i]) THEN SkipWs(s, i + 1) ELSE i

\* last position up to j that holds no white space (0 if there is none)
RECURSIVE SkipWsBack(_, _)
SkipWsBack(s, j) == IF j >= 1 /\ IsWs(s[j]) THEN SkipWsBack(s, j - 1) ELSE j

\* String.prototype.trim
Trim(s) == SubSeq(s, SkipWs(s, 1), SkipWsBack(s, Len(s)))

\* n copies of the character c
Rep(c, n) == [i \in 1..n |-> c]

\* a literal of the source that is passed along unread
Lit(str) == <<str>>

(***************************************************************************)
(* JavaScript values of a request body field                               *)
(***************************************************************************)

Undefined == [t |-> "undefined", s |-> <<>>, n |-> 0]
Str(s)    == [t |-> "string", s |-> s, n |-> 0]
Num(n)    == [t |-> "number", s |-> <<>>, n |-> n]

\* ToBoolean: what `!x` and `x || y` test
Truthy(v) ==
    CASE v.t = "undefined" -> FALSE
      [] v.t = "string"    -> v.s # <<>>
      [] v.t = "number"    -> v.n # 0

\* a destructuring default `{ f = d }` applies to undefined only
WithDefault(v, d) == IF v.t = "undefined" THEN d ELSE v

(***************************************************************************)
(* Local Fallback Responder: localFallback(message)                        *)
(***************************************************************************)

WorkoutWords  == { <<"w","o","r","k","o","u","t">>, <<"e","x","e","r","c","i","s","e">>,
                   <<"p","l","a","n">>, <<"r","o","u","t","i","n","e">> }
DietWords     == { <<"d","i","e","t">>, <<"c","a","l","o","r","i","e">>,
                   <<"p","r","o","t","e","i","n">>, <<"m","e","a","l">> }
GreetingWords == { <<"h","i">>, <<"h","e","l","l","o">>, <<"h","e","y">> }

WorkoutReply  == Lit("Sample full-body routine (local fallback):\n- Squats 3x10\n- Push-ups 3x8-12\n- Rows 3x8-12\n- Plank 3x30s\nDo this 3x/week. (This is the local fallback - enable Gemini API for richer replies.)")
DietReply     == Lit("Local diet tip: prioritize protein (1.6-2.2 g/kg), eat whole foods, and reduce processed sugars.")
GreetingReply == Lit("Hey - I'm FitBuddy. Ask me for workout plans, diet tips, or motivation.")
CatchAllReply == Lit("I didn't understand. Try asking \"Give me a 30 minute full-body home workout\" or \"How many calories should I eat to lose weight?\"")

\* is there a word character at position p of s (none outside the string)
WordAt(s, p) == p \in 1..Len(s) /\ IsWordChar(s[p])

\* \b between positions p-1 and p
WordBoundary(s, p) == WordAt(s, p - 1) # WordAt(s, p)

\* /\b(w1|w2|...)\b/.test(s)
TestWords(words, s) ==
    \E w \in words : \E i \in 1..(Len(s) - Len(w) + 1) :
        /\ SubSeq(s, i, i + Len(w) - 1) = w
        /\ WordBoundary(s, i)
        /\ WordBoundary(s, i + Len(w))

\* ReplyFor with the diet test ahead of the workout test
ReplyFor_DietFirst(msg) ==
    IF TestWords(DietWords, msg) THEN DietReply
    ELSE IF TestWords(WorkoutWords, msg) THEN WorkoutReply
    ELSE IF TestWords(GreetingWords, msg) THEN GreetingReply
    ELSE CatchAllReply

\* the reply chosen for a lower-cased message
ReplyFor(msg) ==
    IF TestWords(WorkoutWords, msg) THEN WorkoutReply
    ELSE IF TestWords(DietWords, msg) THEN DietReply
    ELSE IF TestWords(GreetingWords, msg) THEN GreetingReply
    ELSE CatchAllReply

\* localFallback(message): (message || '').toLowerCase() throws a TypeError when
\* message is truthy and not a string
localFallback(message) ==
    LET m == IF Truthy(message) THEN message ELSE Str(<<>>)
    IN  IF m.t # "string"
          THEN [threw |-> TRUE, val |-> <<>>]
          ELSE [threw |-> FALSE, val |-> ReplyFor(ToLowerCase(m.s))]

(***************************************************************************)
(* Chunking Splitter: the loop of /api/explain/stream                      *)
(***************************************************************************)

maxChunk == 240

\* where /(?<=[.?!])\s+/ can match: a whitespace character right after a terminator
SeparatorStarts(t) == {i \in 2..Len(t) : IsWs(t[i]) /\ IsTerminator(t[i - 1])}

\* last position of the whitespace run that starts at i (\s+ is greedy)
RunEnd(t, i) == SkipWs(t, i) - 1

\* the pieces of t from position `from` on, given the separator starts not yet passed
RECURSIVE SplitFrom(_, _, _)
SplitFrom(t, from, starts) ==
    IF starts = {} THEN << SubSeq(t, from, Len(t)) >>
    ELSE LET i == CHOOSE x \in starts : \A y \in starts : x <= y
         IN  << SubSeq(t, from, i - 1) >>
                \o SplitFrom(t, RunEnd(t, i) + 1, {x \in starts : x > RunEnd(t, i)})

\* explanation.split(/(?<=[.?!])\s+/)
SplitSentences(t) == SplitFrom(t, 1, SeparatorStarts(t))

\* ChunkStep that never flushes: every sentence is appended to the buffer
ChunkStep_NoFlush(st, s) ==
    [buf |-> IF st.buf # <<>> THEN st.buf \o <<" ">> \o s ELSE s, chunks |-> st.chunks]

\* ChunkStep that flushes the buffer and forgets the sentence that did not fit
ChunkStep_DropSentence(st, s) ==
    IF Len(st.buf) + 1 + Len(s) > maxChunk
      THEN IF st.buf # <<>>
             THEN [buf |-> <<>>, chunks |-> Append(st.chunks, Trim(st.buf))]
             ELSE [buf |-> <<>>, chunks |-> Append(st.chunks, Trim(s))]
      ELSE [buf |-> IF st.buf # <<>> THEN st.buf \o <<" ">> \o s ELSE s,
            chunks |-> st.chunks]

\* one iteration of `for (const s of sentences)`; st = [buf, chunks]
ChunkStep(st, s) ==
    IF Len(st.buf) + 1 + Len(s) > maxChunk
      THEN IF st.buf # <<>>
             THEN [buf |-> s, chunks |-> Append(st.chunks, Trim(st.buf))]
             ELSE [buf |-> <<>>, chunks |-> Append(st.chunks, Trim(s))]
      ELSE [buf |-> IF st.buf # <<>> THEN st.buf \o <<" ">> \o s ELSE s,
            chunks |-> st.chunks]

RECURSIVE ChunkLoop(_, _, _)
ChunkLoop(sentences, i, st) ==
    IF i > Len(sentences) THEN st
    ELSE ChunkLoop(sentences, i + 1, ChunkStep(st, sentences[i]))

\* the chunks array built from the explanation text
SplitIntoChunks(explanation) ==
    LET st == ChunkLoop(SplitSentences(explanation), 1, [buf |-> <<>>, chunks |-> <<>>])
    IN  IF st.buf # <<>> THEN Append(st.chunks, Trim(st.buf)) ELSE st.chunks

(***************************************************************************)
(* Upstream Client: callGemini(promptText)                                 *)
(***************************************************************************)

\* what ${x} of a template literal yields for a body field
ToStr(v) ==
    CASE v.t = "string"    -> v.s
      [] v.t = "number"    -> Lit(ToString(v.n))
      [] v.t = "undefined" -> Lit("undefined")

\* the parsed JSON payload, reduced to what callGemini reads of it:
\* whether candidates[0].content.parts[0].text exists, and its string value
Found(text) == [path |-> TRUE, text |-> text]
NotFound    == [path |-> FALSE, text |-> <<>>]

\* JSON string escaping of one character
JsonEscapeChar(c) ==
    CASE c = "\"" -> <<"\\", "\"">>
      [] c = "\\" -> <<"\\", "\\">>
      [] c = "\n" -> <<"\\", "n">>
      [] c = "\t" -> <<"\\", "t">>
      [] c = "\r" -> <<"\\", "r">>
      [] OTHER    -> <<c>>

RECURSIVE JsonEscape(_)
JsonEscape(s) == IF s = <<>> THEN <<>> ELSE JsonEscapeChar(Head(s)) \o JsonEscape(Tail(s))

\* JSON.stringify(data) for the smallest payload of each shape
Stringify(data) ==
    IF data.path
      THEN <<"{","\"","c","a","n","d","i","d","a","t","e","s","\"",":","[","{","\"","c","o","n","t","e","n","t","\"",":","{","\"","p","a","r","t","s","\"",":","[","{","\"","t","e","x","t","\"",":","\"">> \o JsonEscape(data.text) \o <<"\"","}","]","}","}","]","}">>
      ELSE <<"{", "}">>

\* lines 64-77: the value callGemini returns for a parsed 2xx payload
ExtractText(data) ==
    IF data.path /\ data.text # <<>> THEN data.text ELSE Stringify(data)

\* res.ok of node-fetch
IsOk(status) == status >= 200 /\ status < 300

\* String(err) of `new Error(`Gemini API error ${res.status}: ${errorText}`)`
GeminiApiError(status, errorText) ==
    Lit("Error: Gemini API error ") \o Lit(ToString(status)) \o Lit(": ") \o errorText

\* String(err) of the errors node-fetch itself raises
FetchError     == Lit("FetchError: request to generativelanguage.googleapis.com failed")
InvalidJson    == Lit("FetchError: invalid json response body")

(***************************************************************************)
(* State                                                                   *)
(***************************************************************************)

VARIABLES
    GEMINI_API_KEY,   \* process.env.GEMINI_API_KEY, read once at startup
    reqs,             \* per request: the handler's locals, its position and its response
    disconnected,     \* the requests whose client has closed the connection
    arg, ret, called  \* a pure function applied on its own: argument, result, which one

vars == <<GEMINI_API_KEY, reqs, disconnected, arg, ret, called>>

MaxReqs == 2
ReqIds  == 1..MaxReqs

(***************************************************************************)
(* Response object (res)                                                   *)
(***************************************************************************)

NoJson == [error |-> Undefined, reply |-> Undefined, source |-> Undefined,
           explanation |-> Undefined, detail |-> Undefined]

\* a fresh res: statusCode defaults to 200, nothing written
NoResponse == [statusCode |-> 200, contentType |-> "", json |-> NoJson,
               writes |-> <<>>, ended |-> FALSE, sends |-> 0]

\* res.status(code)
Status(res, code) == [res EXCEPT !.statusCode = code]

\* res.json(obj): writes the body and ends the response
Json(res, obj) ==
    [res EXCEPT !.contentType = "application/json", !.json = obj,
                !.ended = TRUE, !.sends = @ + 1]

\* res.setHeader('Content-Type', 'text/plain; charset=utf-8')
SetTextHeaders(res) == [res EXCEPT !.contentType = "text/plain"]

\* res.write(text)
Write(res, text) == [res EXCEPT !.writes = Append(@, text)]

\* res.end()
End(res) == [res EXCEPT !.ended = TRUE, !.sends = @ + 1]

RECURSIVE Concat(_)
Concat(ss) == IF ss = <<>> THEN <<>> ELSE Head(ss) \o Concat(Tail(ss))

\* the bytes the client has received on a streamed response
BodyText(res) == Concat(res.writes)

(***************************************************************************)
(* Request bodies                                                          *)
(***************************************************************************)

NoBody == [present |-> FALSE, message |-> Undefined, code |-> Undefined,
           mode |-> Undefined, language |-> Undefined]

ChatBody(message) == [NoBody EXCEPT !.present = TRUE, !.message = message]

ExplainBody(code, mode, language) ==
    [NoBody EXCEPT !.present = TRUE, !.code = code, !.mode = mode, !.language = language]

\* `const { f } = req.body || {}`
Field(body, f) == IF body.present THEN body[f] ELSE Undefined

(***************************************************************************)
(* A request: handler locals, position, response                           *)
(***************************************************************************)

\* the upstream call of a request: how it ended, the status and the parsed payload the
\* provider answered, and the text callGemini returned or the error it threw
NoUpstream == [result |-> "none", status |-> 0, data |-> NotFound, value |-> <<>>]

\* phases records the stages the handler has passed, in the order it passed them
Idle == [pc |-> "idle", endpoint |-> "none", body |-> NoBody, prompt |-> <<>>,
         fetches |-> 0, up |-> NoUpstream, res |-> NoResponse, phases |-> <<>>]

\* the handler returned: nothing of it is left to run
Finish(q, res) ==
    [q EXCEPT !.pc = "done", !.res = res,
              !.phases = @ \o <<"Responding", IF res.statusCode >= 400 THEN "Error" ELSE "Done">>]

\* `await callGemini(prompt)` up to the `await fetch(...)` of line 48: one POST is issued
CallGemini(q, prompt) ==
    [q EXCEPT !.pc = "awaitFetch", !.prompt = prompt, !.fetches = @ + 1,
              !.up = [NoUpstream EXCEPT !.result = "pending"],
              !.phases = @ \o <<"Building Prompt", "Dispatching">>]

ChatPrompt(message) ==
    Lit("You are FitBuddy, a concise friendly fitness coach. Answer the user's question clearly and with practical steps. If user asks for a workout, include sets/reps/time. Keep it brief.\n\nUser: ")
        \o ToStr(message)

ExplainPrompt(mode, language, code) ==
    Lit("You are a helpful code explainer. The user requested mode=") \o ToStr(mode)
        \o Lit(" and language=") \o ToStr(language)
        \o Lit(". Provide a clear ") \o ToStr(mode)
        \o Lit(" of the code below.\n\nCode:\n") \o ToStr(code)

\* the outer catch of the JSON handlers: res.status(500).json({ error: 'Server error' })
ServerError(q) ==
    Finish(q, Json(Status(q.res, 500), [NoJson EXCEPT !.error = Str(Lit("Server error"))]))

(***************************************************************************)
(* POST /api/chat                                                          *)
(***************************************************************************)

\* PostChat without the `if (!GEMINI_API_KEY)` branch of lines 161-164
PostChat_NoKeyBranch(q) ==
    LET message == Field(q.body, "message")
    IN  IF ~Truthy(message)
          THEN Finish(q, Json(Status(q.res, 400),
                              [NoJson EXCEPT !.error = Str(Lit("No message provided"))]))
        ELSE CallGemini(q, ChatPrompt(message))

\* lines 156-171: from the arrival of the request to the first await
PostChat(q) ==
    LET message == Field(q.body, "message")
    IN  IF ~Truthy(message)
          THEN Finish(q, Json(Status(q.res, 400),
                              [NoJson EXCEPT !.error = Str(Lit("No message provided"))]))
        ELSE IF ~Truthy(GEMINI_API_KEY)
          THEN LET reply == localFallback(message)
               IN  IF reply.threw THEN ServerError(q)
                   ELSE Finish(q, Json(q.res,
                            [NoJson EXCEPT !.reply = Str(reply.val),
                                           !.source = Str(Lit("local-fallback"))]))
        ELSE CallGemini(q, ChatPrompt(message))

\* line 179: callGemini returned replyText
ChatResolved(q, replyText) ==
    Finish(q, Json(q.res, [NoJson EXCEPT !.reply = Str(replyText),
                                         !.source = Str(Lit("gemini"))]))

\* ChatRejected without the `return` of line 176: the handler goes on to line 179
\* and answers a second time
ChatRejected_NoReturn(q, err) ==
    LET fallback == localFallback(Field(q.body, "message"))
    IN  IF fallback.threw THEN ServerError(q)
        ELSE Finish(q, Json(Json(q.res, [NoJson EXCEPT !.reply = Str(fallback.val),
                                                       !.source = Str(Lit("fallback")),
                                                       !.error = Str(err)]),
                            [NoJson EXCEPT !.source = Str(Lit("gemini"))]))

ChatRejected_Retry(q, err) ==
    IF q.fetches < 2 THEN CallGemini(q, q.prompt)
    ELSE Finish(q, Json(q.res, [NoJson EXCEPT !.reply = Str(localFallback(Field(q.body, "message")).val),
                                              !.source = Str(Lit("fallback")),
                                              !.error = Str(err)]))

\* lines 172-177: callGemini threw err
ChatRejected(q, err) ==
    LET fallback == localFallback(Field(q.body, "message"))
    IN  IF fallback.threw THEN ServerError(q)
        ELSE Finish(q, Json(q.res, [NoJson EXCEPT !.reply = Str(fallback.val),
                                                  !.source = Str(Lit("fallback")),
                                                  !.error = Str(err)]))

(***************************************************************************)
(* POST /api/explain                                                       *)
(***************************************************************************)

\* PostExplain with the heuristic explainer of lines 207-252 live when no credential is set
PostExplain_LocalExplain(q) ==
    LET code     == Field(q.body, "code")
        mode     == WithDefault(Field(q.body, "mode"), Str(Lit("summary")))
        language == WithDefault(Field(q.body, "language"), Str(Lit("auto")))
    IN  IF ~Truthy(code)
          THEN Finish(q, Json(Status(q.res, 400),
                              [NoJson EXCEPT !.error = Str(Lit("No code provided"))]))
        ELSE IF ~Truthy(GEMINI_API_KEY)
          THEN Finish(q, Json(q.res,
                   [NoJson EXCEPT !.explanation = Str(Lit("Small code snippet - general purpose.")),
                                  !.source = Str(Lit("local-fallback"))]))
        ELSE CallGemini(q, ExplainPrompt(mode, language, code))

\* lines 189-200
PostExplain(q) ==
    LET code     == Field(q.body, "code")
        mode     == WithDefault(Field(q.body, "mode"), Str(Lit("summary")))
        language == WithDefault(Field(q.body, "language"), Str(Lit("auto")))
    IN  IF ~Truthy(code)
          THEN Finish(q, Json(Status(q.res, 400),
                              [NoJson EXCEPT !.error = Str(Lit("No code provided"))]))
        ELSE IF ~Truthy(GEMINI_API_KEY)
          THEN Finish(q, Json(Status(q.res, 400),
                   [NoJson EXCEPT !.error = Str(Lit("Server is configured to use Gemini for explanations but GEMINI_API_KEY is not set. Please add GEMINI_API_KEY to your .env."))]))
        ELSE CallGemini(q, ExplainPrompt(mode, language, code))

\* line 201
ExplainResolved(q, explanation) ==
    Finish(q, Json(q.res, [NoJson EXCEPT !.explanation = Str(explanation),
                                         !.source = Str(Lit("gemini"))]))

\* ExplainRejected that reports the failure as a success
ExplainRejected_Ok(q, err) ==
    Finish(q, Json(q.res, [NoJson EXCEPT !.explanation = Str(err),
                                         !.source = Str(Lit("gemini"))]))

\* lines 202-205
ExplainRejected(q, err) ==
    Finish(q, Json(Status(q.res, 502),
                   [NoJson EXCEPT !.error = Str(Lit("Gemini API error")),
                                  !.detail = Str(err)]))

(***************************************************************************)
(* POST /api/explain/stream                                                *)
(***************************************************************************)

\* PostExplainStream with the credential check ahead of the field check
PostExplainStream_KeyFirst(q) ==
    LET code     == Field(q.body, "code")
        mode     == WithDefault(Field(q.body, "mode"), Str(Lit("summary")))
        language == WithDefault(Field(q.body, "language"), Str(Lit("auto")))
    IN  IF ~Truthy(GEMINI_API_KEY)
          THEN Finish(q, Json(Status(q.res, 400),
                   [NoJson EXCEPT !.error = Str(Lit("GEMINI_API_KEY is not set in server environment"))]))
        ELSE IF ~Truthy(code)
          THEN Finish(q, Json(Status(q.res, 400),
                              [NoJson EXCEPT !.error = Str(Lit("No code provided"))]))
        ELSE CallGemini([q EXCEPT !.res = SetTextHeaders(q.res)],
                        ExplainPrompt(mode, language, code))

\* lines 82-100
PostExplainStream(q) ==
    LET code     == Field(q.body, "code")
        mode     == WithDefault(Field(q.body, "mode"), Str(Lit("summary")))
        language == WithDefault(Field(q.body, "language"), Str(Lit("auto")))
    IN  IF ~Truthy(code)
          THEN Finish(q, Json(Status(q.res, 400),
                              [NoJson EXCEPT !.error = Str(Lit("No code provided"))]))
        ELSE IF ~Truthy(GEMINI_API_KEY)
          THEN Finish(q, Json(Status(q.res, 400),
                   [NoJson EXCEPT !.error = Str(Lit("GEMINI_API_KEY is not set in server environment"))]))
        ELSE CallGemini([q EXCEPT !.res = SetTextHeaders(q.res)],
                        ExplainPrompt(mode, language, code))

\* lines 125-129: `for (const c of chunks) res.write(c + '\n')`
RECURSIVE WriteChunks(_, _)
WriteChunks(res, chunks) ==
    IF chunks = <<>> THEN res
    ELSE WriteChunks(Write(res, Head(chunks) \o <<"\n">>), Tail(chunks))

\* lines 107-132: callGemini returned explanation (`if (!explanation) explanation = ''`
\* leaves a string as it is)
StreamResolved(q, explanation) ==
    Finish(q, End(WriteChunks(q.res, SplitIntoChunks(explanation))))

\* StreamRejected without the `return res.end()` of line 104
StreamRejected_NoEnd(q, err) ==
    [q EXCEPT !.pc = "done",
              !.res = Write(Status(q.res, 502), Lit("Error: Gemini API failed") \o <<"\n">>)]

\* lines 101-105: callGemini threw
StreamRejected(q, err) ==
    Finish(q, End(Write(Status(q.res, 502), Lit("Error: Gemini API failed") \o <<"\n">>)))

(***************************************************************************)
(* Inputs                                                                  *)
(***************************************************************************)

Hello   == <<"h","e","l","l","o">>
Workout == <<"W","O","R","K","O","U","T">>
XEq1    == <<"x","=","1">>
ABC     == <<"A","."," ","B","."," ","C",".">>

\* a sentence of n characters: n-1 letters and a full stop
Sentence(n) == Rep("a", n - 1) \o <<".">>

\* the credential: unset, set to the empty string, set
Keys == {Undefined, Str(<<>>), Str(Lit("key"))}

\* no body, an empty message, a text message, a message that is not text
ChatBodies == {NoBody} \cup {ChatBody(m) : m \in {Str(<<>>), Str(Hello), Num(42)}}

\* no body, an empty code, a code with a mode of its own and the default language
ExplainBodies ==
    {NoBody, ExplainBody(Str(<<>>), Undefined, Undefined),
             ExplainBody(Str(XEq1), Str(Lit("line")), Undefined)}

Endpoints == {"chat", "explain", "stream"}

BodiesOf(endpoint) == IF endpoint = "chat" THEN ChatBodies ELSE ExplainBodies

\* HTTP statuses the provider answers with
Statuses == {200, 429}

ErrorTexts == {Lit("RESOURCE_EXHAUSTED")}

\* answers of the provider: one chunk, two chunks, a line break inside a sentence,
\* white space only, the empty string
UpstreamTexts ==
    { ABC,
      Sentence(maxChunk) \o <<" ">> \o Sentence(maxChunk \div 2),
      <<"b", "\n", "b">>,
      <<" ", " ">>,
      <<>> }

Payloads == {NotFound} \cup {Found(t) : t \in UpstreamTexts}

(***************************************************************************)
(* Actions of the server                                                   *)
(***************************************************************************)

Init ==
    /\ GEMINI_API_KEY \in Keys
    /\ reqs = [r \in ReqIds |-> Idle]
    /\ disconnected = {}
    /\ arg = <<>>
    /\ ret = <<>>
    /\ called = "none"

Dispatch(q) ==
    CASE q.endpoint = "chat"    -> PostChat(q)
      [] q.endpoint = "explain" -> PostExplain(q)
      [] q.endpoint = "stream"  -> PostExplainStream(q)

\* Resolved with the text kept in a variable of the module that every request in
\* flight overwrites: the handler answers with the text of the latest call
Resolved_SharedText(q, text) ==
    LET q1     == [q EXCEPT !.up.result = "returned", !.up.value = text]
        others == {o \in ReqIds : reqs[o].up.result = "returned" /\ reqs[o].up.value # text}
        shared == IF others = {} THEN text ELSE reqs[CHOOSE o \in others : TRUE].up.value
    IN  CASE q.endpoint = "chat"    -> ChatResolved(q1, shared)
          [] q.endpoint = "explain" -> ExplainResolved(q1, shared)
          [] q.endpoint = "stream"  -> StreamResolved(q1, shared)

\* the awaited callGemini returned text
Resolved(q, text) ==
    LET q1 == [q EXCEPT !.up.result = "returned", !.up.value = text]
    IN  CASE q.endpoint = "chat"    -> ChatResolved(q1, text)
          [] q.endpoint = "explain" -> ExplainResolved(q1, text)
          [] q.endpoint = "stream"  -> StreamResolved(q1, text)

\* the awaited callGemini threw err
Rejected(q, err) ==
    LET q1 == [q EXCEPT !.up.result = "threw", !.up.value = err]
    IN  CASE q.endpoint = "chat"    -> ChatRejected(q1, err)
          [] q.endpoint = "explain" -> ExplainRejected(q1, err)
          [] q.endpoint = "stream"  -> StreamRejected(q1, err)

\* a request arrives and its handler runs up to its first await or its return
\* (requests are numbered in the order of their arrival)
Receive(r) ==
    /\ reqs[r].pc = "idle"
    /\ \A o \in ReqIds : o < r => reqs[o].pc # "idle"
    /\ \E endpoint \in Endpoints : \E body \in BodiesOf(endpoint) :
          reqs' = [reqs EXCEPT ![r] = Dispatch([Idle EXCEPT !.endpoint = endpoint,
                                                            !.body = body,
                                                            !.phases = <<"Received">>])]
    /\ UNCHANGED <<GEMINI_API_KEY, disconnected, arg, ret, called>>

\* line 48: fetch rejects (connection refused, reset, DNS failure)
FetchRejects(r) ==
    /\ reqs[r].pc = "awaitFetch"
    /\ reqs' = [reqs EXCEPT ![r] = Rejected(reqs[r], FetchError)]
    /\ UNCHANGED <<GEMINI_API_KEY, disconnected, arg, ret, called>>

\* lines 48-64: fetch resolves with a status; callGemini goes on to read the body
FetchResponds(r) ==
    /\ reqs[r].pc = "awaitFetch"
    /\ \E status \in Statuses :
          reqs' = [reqs EXCEPT ![r].up.status = status,
                               ![r].pc = IF IsOk(status) THEN "awaitJson" ELSE "awaitText"]
    /\ UNCHANGED <<GEMINI_API_KEY, disconnected, arg, ret, called>>

\* lines 60-61: the body of a non-2xx answer has been read; callGemini throws
TextRead(r) ==
    /\ reqs[r].pc = "awaitText"
    /\ \E errorText \in ErrorTexts :
          reqs' = [reqs EXCEPT ![r] =
                      Rejected(reqs[r], GeminiApiError(reqs[r].up.status, errorText))]
    /\ UNCHANGED <<GEMINI_API_KEY, disconnected, arg, ret, called>>

\* lines 64-77: the body of a 2xx answer has been parsed; callGemini returns
JsonRead(r) ==
    /\ reqs[r].pc = "awaitJson"
    /\ \E data \in Payloads :
          reqs' = [reqs EXCEPT ![r] = Resolved([reqs[r] EXCEPT !.up.data = data],
                                               ExtractText(data))]
    /\ UNCHANGED <<GEMINI_API_KEY, disconnected, arg, ret, called>>

\* line 64: the body of a 2xx answer is not JSON; res.json() rejects
JsonRejects(r) ==
    /\ reqs[r].pc = "awaitJson"
    /\ reqs' = [reqs EXCEPT ![r] = Rejected(reqs[r], InvalidJson)]
    /\ UNCHANGED <<GEMINI_API_KEY, disconnected, arg, ret, called>>

\* ClientDisconnect that is propagated: the handler is torn down and the pending
\* call is cancelled, its outcome never arrives
ClientDisconnect_Abort(r) ==
    /\ reqs[r].endpoint = "stream"
    /\ reqs[r].pc \in {"awaitFetch", "awaitText", "awaitJson"}
    /\ r \notin disconnected
    /\ disconnected' = disconnected \cup {r}
    /\ reqs' = [reqs EXCEPT ![r].pc = "done", ![r].res = End(reqs[r].res)]
    /\ UNCHANGED <<GEMINI_API_KEY, arg, ret, called>>

\* the client of a streaming request closes the connection while the handler awaits
\* callGemini: no handler listens for it ('close' and 'aborted' have no listener,
\* fetch gets no signal)
ClientDisconnect(r) ==
    /\ reqs[r].endpoint = "stream"
    /\ reqs[r].pc \in {"awaitFetch", "awaitText", "awaitJson"}
    /\ r \notin disconnected
    /\ disconnected' = disconnected \cup {r}
    /\ UNCHANGED <<GEMINI_API_KEY, reqs, arg, ret, called>>

\* Next of a server that gives up on a call after some time: a request that waits
\* for the provider is answered as if callGemini had thrown
Next_WithTimeout ==
    \E r \in ReqIds :
        \/ Receive(r)
        \/ FetchRejects(r)
        \/ FetchResponds(r)
        \/ TextRead(r)
        \/ JsonRead(r)
        \/ JsonRejects(r)
        \/ ClientDisconnect(r)
        \/ /\ reqs[r].pc \in {"awaitFetch", "awaitText", "awaitJson"}
           /\ reqs' = [reqs EXCEPT ![r] = Rejected(reqs[r], Lit("timeout"))]
           /\ UNCHANGED <<GEMINI_API_KEY, disconnected, arg, ret, called>>

Next ==
    \E r \in ReqIds :
        \/ Receive(r)
        \/ FetchRejects(r)
        \/ FetchResponds(r)
        \/ TextRead(r)
        \/ JsonRead(r)
        \/ JsonRejects(r)
        \/ ClientDisconnect(r)

Spec == Init /\ [][Next]_vars

\* the provider's side of every upstream call goes on: the connection fails or is
\* answered, and a body that is being read ends or fails
UpstreamProgress(r) ==
    WF_vars(FetchRejects(r) \/ FetchResponds(r) \/ TextRead(r) \/ JsonRead(r) \/ JsonRejects(r))

FairSpec == Spec /\ \A r \in ReqIds : UpstreamProgress(r)

(***************************************************************************)
(* The Chunking Splitter applied on its own to generated texts             *)
(***************************************************************************)

MaxPieces == 4

\* building blocks of the texts: sentences around half of maxChunk and of exactly
\* maxChunk characters, white space, a letter
Pieces ==
    { Sentence(maxChunk \div 2 - 1), Sentence(maxChunk \div 2), Sentence(maxChunk),
      <<" ">>, <<"\n">>, <<"b">> }

\* the texts of at most max pieces
PieceTexts(max) == UNION { {Concat(ps) : ps \in [1..n -> Pieces]} : n \in 1..max }

InitChunk ==
    /\ GEMINI_API_KEY = Undefined
    /\ reqs = [r \in ReqIds |-> Idle]
    /\ disconnected = {}
    /\ arg \in PieceTexts(MaxPieces)
    /\ ret = <<>>
    /\ called = "none"

ApplySplitIntoChunks ==
    /\ called = "none"
    /\ called' = "SplitIntoChunks"
    /\ ret' = SplitIntoChunks(arg)
    /\ UNCHANGED <<GEMINI_API_KEY, reqs, disconnected, arg>>

SpecChunk == InitChunk /\ [][ApplySplitIntoChunks]_vars

(***************************************************************************)
(* The Local Fallback Responder applied on its own to generated messages   *)
(***************************************************************************)

MaxWords == 3

\* building blocks of the messages: every keyword, some in upper or mixed case,
\* a separator and letters that glue onto a keyword
MessagePieces ==
    WorkoutWords \cup DietWords \cup GreetingWords
      \cup { Workout, <<"D","i","e","t">>, <<" ">>, <<"s">> }

\* no message, the empty message and the messages of at most max pieces
Messages(max) ==
    {Undefined, Str(<<>>)}
      \cup UNION { {Str(Concat(ps)) : ps \in [1..n -> MessagePieces]} : n \in 1..max }

InitFallback ==
    /\ GEMINI_API_KEY = Undefined
    /\ reqs = [r \in ReqIds |-> Idle]
    /\ disconnected = {}
    /\ arg \in Messages(MaxWords)
    /\ ret = <<>>
    /\ called = "none"

ApplyLocalFallback ==
    /\ called = "none"
    /\ called' = "localFallback"
    /\ ret' = localFallback(arg).val
    /\ UNCHANGED <<GEMINI_API_KEY, reqs, disconnected, arg>>

SpecFallback == InitFallback /\ [][ApplyLocalFallback]_vars

(***************************************************************************)
(* Properties of the route handlers (checked under Spec)                   *)
(***************************************************************************)

Configured == Truthy(GEMINI_API_KEY)

NonEmptyString(v) == v.t = "string" /\ v.s # <<>>

Message(q) == Field(q.body, "message")
Code(q)    == Field(q.body, "code")

ConfigurationErrors ==
    { Str(Lit("Server is configured to use Gemini for explanations but GEMINI_API_KEY is not set. Please add GEMINI_API_KEY to your .env.")),
      Str(Lit("GEMINI_API_KEY is not set in server environment")) }

\* C1: POST /api/chat with a non-empty text message and no credential configured is
\* answered at once with HTTP 200, source 'local-fallback' and the reply of
\* localFallback for that message, and no upstream call is issued.
C1_ChatLocalFallback ==
    \A r \in ReqIds :
        LET q == reqs[r]
        IN  (q.endpoint = "chat" /\ NonEmptyString(Message(q)) /\ ~Configured)
              => /\ q.pc = "done"
                 /\ q.res.ended
                 /\ q.res.statusCode = 200
                 /\ q.res.json.source = Str(Lit("local-fallback"))
                 /\ q.res.json.reply = Str(localFallback(Message(q)).val)
                 /\ q.fetches = 0
                 /\ q.up.result = "none"

W_C1 ==
    \E r \in ReqIds :
        /\ reqs[r].endpoint = "chat"
        /\ Message(reqs[r]) = Str(Hello)
        /\ ~Configured
        /\ reqs[r].res.json.reply = Str(GreetingReply)

\* C2: with a credential and a valid body, a failed upstream call makes /api/explain
\* answer 502 and /api/chat answer 200 with source 'fallback', an error field and the
\* reply of localFallback; source 'gemini' appears only after a successful upstream call.
C2_UpstreamFailure ==
    \A r \in ReqIds :
        LET q == reqs[r]
        IN  /\ (q.endpoint = "explain" /\ q.up.result = "threw")
                  => /\ q.res.ended
                     /\ q.res.statusCode = 502
                     /\ q.res.json.source # Str(Lit("gemini"))
            /\ (q.endpoint = "chat" /\ q.up.result = "threw" /\ NonEmptyString(Message(q)))
                  => /\ q.res.ended
                     /\ q.res.statusCode = 200
                     /\ q.res.json.source = Str(Lit("fallback"))
                     /\ q.res.json.error # Undefined
                     /\ q.res.json.reply = Str(localFallback(Message(q)).val)
            /\ q.res.json.source = Str(Lit("gemini"))
                  => /\ q.up.result = "returned"
                     /\ IsOk(q.up.status)

W_C2 ==
    /\ \E r \in ReqIds :
          /\ reqs[r].endpoint = "chat"
          /\ reqs[r].up.result = "threw"
          /\ reqs[r].up.status = 429
          /\ reqs[r].res.json.source = Str(Lit("fallback"))
    /\ \E r \in ReqIds :
          /\ reqs[r].endpoint = "explain"
          /\ reqs[r].up.result = "threw"
          /\ reqs[r].up.status = 0

\* C3: /api/explain and /api/explain/stream with a code field and no credential answer
\* HTTP 400 with a configuration error and issue no upstream call; no explain request
\* is ever answered with source 'local-fallback'.
C3_ExplainNeedsCredential ==
    \A r \in ReqIds :
        LET q == reqs[r]
        IN  /\ (q.endpoint \in {"explain", "stream"} /\ Truthy(Code(q)) /\ ~Configured)
                  => /\ q.pc = "done"
                     /\ q.res.ended
                     /\ q.res.statusCode = 400
                     /\ q.res.json.error \in ConfigurationErrors
                     /\ q.res.json.explanation = Undefined
                     /\ q.res.writes = <<>>
                     /\ q.fetches = 0
            /\ q.endpoint \in {"explain", "stream"}
                  => q.res.json.source # Str(Lit("local-fallback"))

W_C3 ==
    /\ ~Configured
    /\ \E r \in ReqIds :
          reqs[r].endpoint = "explain" /\ Code(reqs[r]) = Str(XEq1) /\ reqs[r].pc = "done"
    /\ \E r \in ReqIds :
          reqs[r].endpoint = "stream" /\ Code(reqs[r]) = Str(XEq1) /\ reqs[r].pc = "done"

\* the field an endpoint requires, and the error it answers when the field is missing
RequiredField(q) == IF q.endpoint = "chat" THEN Message(q) ELSE Code(q)
MissingFieldError(q) ==
    IF q.endpoint = "chat" THEN Str(Lit("No message provided")) ELSE Str(Lit("No code provided"))

\* C4: on the three POST endpoints a request whose required field is missing or empty
\* is answered at once with HTTP 400 and a JSON error field, credential or not (the
\* field is checked before the credential), with no upstream call and nothing streamed.
C4_MissingField ==
    \A r \in ReqIds :
        LET q == reqs[r]
        IN  (q.endpoint # "none" /\ ~Truthy(RequiredField(q)))
              => /\ q.pc = "done"
                 /\ q.res.ended
                 /\ q.res.statusCode = 400
                 /\ q.res.contentType = "application/json"
                 /\ q.res.json.error = MissingFieldError(q)
                 /\ q.fetches = 0
                 /\ q.res.writes = <<>>

W_C4 ==
    /\ ~Configured
    /\ \E r \in ReqIds :
          /\ reqs[r].endpoint = "stream"
          /\ reqs[r].body.present
          /\ Code(reqs[r]) = Str(<<>>)
          /\ reqs[r].res.statusCode = 400
    /\ \E r \in ReqIds :
          /\ reqs[r].endpoint = "chat"
          /\ ~reqs[r].body.present
          /\ reqs[r].res.statusCode = 400

\* C5: every request issues at most one upstream call on any path; after an upstream
\* failure the handler has returned without a second call.
C5_AtMostOneUpstreamCall ==
    \A r \in ReqIds :
        LET q == reqs[r]
        IN  /\ q.fetches <= 1
            /\ q.up.result = "threw" => (q.fetches = 1 /\ q.pc = "done")
            /\ q.up.result = "returned" => (q.fetches = 1 /\ q.pc = "done")

W_C5 ==
    /\ \E r \in ReqIds :
          reqs[r].endpoint = "chat" /\ reqs[r].up.result = "threw" /\ reqs[r].fetches = 1
    /\ \E r \in ReqIds :
          reqs[r].endpoint = "stream" /\ reqs[r].up.result = "returned" /\ reqs[r].fetches = 1

(***************************************************************************)
(* Properties of the Chunking Splitter (checked under SpecChunk)           *)
(***************************************************************************)

\* chunks.join(' ')
RECURSIVE JoinSp(_)
JoinSp(ss) ==
    IF ss = <<>> THEN <<>>
    ELSE IF Len(ss) = 1 THEN ss[1]
    ELSE ss[1] \o <<" ">> \o JoinSp(Tail(ss))

RECURSIVE NonEmpty(_)
NonEmpty(ss) ==
    IF ss = <<>> THEN <<>>
    ELSE IF Head(ss) = <<>> THEN NonEmpty(Tail(ss))
    ELSE <<Head(ss)>> \o NonEmpty(Tail(ss))

Trimmed(ss) == [i \in 1..Len(ss) |-> Trim(ss[i])]

\* the sentences found in each chunk, in the order of the chunks
RECURSIVE Resplit(_)
Resplit(chunks) ==
    IF chunks = <<>> THEN <<>> ELSE SplitSentences(Head(chunks)) \o Resplit(Tail(chunks))

\* C6: a chunk is longer than maxChunk only if it is one single sentence of the input
\* that alone exceeds maxChunk; sentences joined into one chunk stay within maxChunk.
C6_ChunkLength ==
    called = "SplitIntoChunks" =>
        LET sentences == SplitSentences(arg)
        IN  \A i \in DOMAIN ret :
                \/ Len(ret[i]) <= maxChunk
                \/ \E j \in DOMAIN sentences :
                      Len(sentences[j]) > maxChunk /\ ret[i] = Trim(sentences[j])

W_C6 ==
    /\ called = "SplitIntoChunks"
    /\ Len(SplitSentences(arg)) >= 2
    /\ Len(ret) >= 2
    /\ \E i \in DOMAIN ret : Len(ret[i]) > maxChunk

\* C7 as stated: the chunks joined with single spaces are exactly the sentences of the
\* input joined with single spaces.
CX_C7_JoinIsSentences ==
    called = "SplitIntoChunks" => JoinSp(ret) = JoinSp(SplitSentences(arg))

\* C7 amended: the chunks joined with single spaces are the sentences of the input in
\* their order joined with single spaces, less the white space at the two ends of the
\* text; the sentences found in the chunks are the sentences of the input, none
\* dropped, duplicated, reordered or split across chunks.
C7_JoinIsTrimmedSentences ==
    called = "SplitIntoChunks" =>
        /\ JoinSp(ret) = Trim(JoinSp(SplitSentences(arg)))
        /\ NonEmpty(Resplit(ret)) = NonEmpty(Trimmed(SplitSentences(arg)))

W_C7 ==
    /\ called = "SplitIntoChunks"
    /\ IsWs(arg[1])
    /\ Len(ret) >= 2
    /\ JoinSp(ret) # JoinSp(SplitSentences(arg))

(***************************************************************************)
(* Properties of the Local Fallback Responder (checked under SpecFallback) *)
(***************************************************************************)

\* position of a letter in the alphabet, 0 for anything else
IndexOf == [c \in Range(UpperLetters) \cup Range(LowerLetters) |->
                CHOOSE i \in 1..26 : c \in {UpperLetters[i], LowerLetters[i]}]
LetterIndex(c) == IF c \in DOMAIN IndexOf THEN IndexOf[c] ELSE 0

SameIgnoringCase(a, b) ==
    /\ Len(a) = Len(b)
    /\ \A k \in 1..Len(a) :
          a[k] = b[k] \/ (LetterIndex(a[k]) > 0 /\ LetterIndex(a[k]) = LetterIndex(b[k]))

\* the words of a message: its maximal runs of word characters
WordStarts(m) == {i \in 1..Len(m) : IsWordChar(m[i]) /\ (i = 1 \/ ~IsWordChar(m[i - 1]))}

\* last position of the run of word characters that holds position i
RECURSIVE WordEnd(_, _)
WordEnd(m, i) == IF i < Len(m) /\ IsWordChar(m[i + 1]) THEN WordEnd(m, i + 1) ELSE i

WordsOf(m) == { SubSeq(m, i, WordEnd(m, i)) : i \in WordStarts(m) }

Mentions(words, keywords) == \E w \in words : \E k \in keywords : SameIgnoringCase(w, k)

TextOf(v) == IF v.t = "string" THEN v.s ELSE <<>>

\* C10: localFallback answers by the first of the categories workout, diet, greeting of
\* which the message holds a keyword as a word, in any letter case, and with the
\* catch-all string when it holds none.
C10_FallbackCategories ==
    called = "localFallback" =>
        LET words == WordsOf(TextOf(arg))
        IN  ret = IF Mentions(words, WorkoutWords) THEN WorkoutReply
                  ELSE IF Mentions(words, DietWords) THEN DietReply
                  ELSE IF Mentions(words, GreetingWords) THEN GreetingReply
                  ELSE CatchAllReply

W_C10 ==
    /\ called = "localFallback"
    /\ arg = Str(<<"D","i","e","t">> \o <<" ">> \o Workout)
    /\ ret = WorkoutReply

(***************************************************************************)
(* Properties of POST /api/explain/stream (checked under Spec)             *)
(***************************************************************************)

\* the lines of a streamed body: the text before each line feed, and what follows
\* the last line feed if the body does not end with one
RECURSIVE LinesFrom(_, _, _)
LinesFrom(body, from, feeds) ==
    IF feeds = {}
      THEN (IF from > Len(body) THEN <<>> ELSE << SubSeq(body, from, Len(body)) >>)
      ELSE LET i == CHOOSE x \in feeds : \A y \in feeds : x <= y
           IN  << SubSeq(body, from, i - 1) >> \o LinesFrom(body, i + 1, feeds \ {i})

Lines(body) == LinesFrom(body, 1, {i \in 1..Len(body) : body[i] = "\n"})

Awaiting(q) == q.pc \in {"awaitFetch", "awaitText", "awaitJson"}

\* C8 as stated: nothing is written while the upstream call is pending; after it
\* returned, the chunks are written in splitter order, each as exactly one line, and
\* the stream is closed after the last one.
CX_C8_ChunksAreLines ==
    \A r \in ReqIds :
        LET q == reqs[r]
        IN  q.endpoint = "stream" =>
              /\ Awaiting(q) => (q.res.writes = <<>> /\ ~q.res.ended)
              /\ q.up.result = "returned" =>
                    /\ q.pc = "done"
                    /\ q.res.ended
                    /\ q.res.sends = 1
                    /\ Lines(BodyText(q.res)) = SplitIntoChunks(q.up.value)

\* the part of C8 that holds: one write per chunk, in splitter order, each followed by
\* a line feed, then the close; nothing before the upstream call returned
StreamWritesInOrder ==
    \A r \in ReqIds :
        LET q == reqs[r]
        IN  q.endpoint = "stream" =>
              /\ Awaiting(q) => (q.res.writes = <<>> /\ ~q.res.ended)
              /\ q.up.result = "returned" =>
                    LET chunks == SplitIntoChunks(q.up.value)
                    IN  /\ q.pc = "done"
                        /\ q.res.ended
                        /\ q.res.sends = 1
                        /\ q.res.writes = [i \in 1..Len(chunks) |-> chunks[i] \o <<"\n">>]

ErrorLine == Lit("Error: Gemini API failed")

\* C9: when the upstream call of a /api/explain/stream request fails, the handler
\* writes exactly one error line, no chunk of an explanation, and ends the stream.
C9_StreamErrorLine ==
    \A r \in ReqIds :
        LET q == reqs[r]
        IN  (q.endpoint = "stream" /\ q.up.result = "threw")
              => /\ q.pc = "done"
                 /\ Lines(BodyText(q.res)) = <<ErrorLine>>
                 /\ Len(q.res.writes) = 1
                 /\ q.res.ended
                 /\ q.res.sends = 1
                 /\ q.res.statusCode = 502

W_C9 ==
    \E r \in ReqIds :
        /\ reqs[r].endpoint = "stream"
        /\ reqs[r].up.result = "threw"
        /\ reqs[r].up.status = 429
        /\ reqs[r].res.writes # <<>>

(***************************************************************************)
(* Properties of the Upstream Client (checked under Spec)                  *)
(***************************************************************************)

\* C11 as stated: on a parsed 2xx answer callGemini returns exactly the text at
\* candidates[0].content.parts[0].text whenever that path is present, and the
\* serialized payload only when the path is absent; it throws in neither case.
CX_C11_TextWheneverPresent ==
    \A r \in ReqIds :
        LET up == reqs[r].up
        IN  up.result = "returned" =>
              /\ IsOk(up.status)
              /\ up.data.path => up.value = up.data.text
              /\ ~up.data.path => up.value = Stringify(up.data)

\* what holds instead: the text is returned when it is present and not empty; an
\* empty text is answered like an absent path, by the serialized payload
ExtractsNonEmptyText ==
    \A r \in ReqIds :
        LET up == reqs[r].up
        IN  up.result = "returned" =>
              /\ IsOk(up.status)
              /\ (up.data.path /\ up.data.text # <<>>) => up.value = up.data.text
              /\ (~up.data.path \/ up.data.text = <<>>) => up.value = Stringify(up.data)

(***************************************************************************)
(* Life of a request (checked under FairSpec and Spec)                     *)
(***************************************************************************)

PhaseOrder == <<"Received", "Building Prompt", "Dispatching", "Responding">>

\* the phases passed so far keep the order of PhaseOrder, start with Received and
\* have Done or Error after Responding and nowhere else
InPhaseOrder(phases) ==
    \/ phases = <<>>
    \/ phases = SubSeq(PhaseOrder, 1, 3)
    \/ \E last \in {"Done", "Error"} :
          \/ phases = <<"Received", "Responding", last>>
          \/ phases = PhaseOrder \o <<last>>

\* one final response when the handler has returned, none before
OneResponse(q) ==
    /\ q.pc = "done" => (q.res.sends = 1 /\ q.res.ended /\ Len(q.phases) >= 3)
    /\ q.pc # "done" => (q.res.sends = 0 /\ ~q.res.ended /\ q.res.writes = <<>>)
    /\ q.pc = "idle" <=> q.phases = <<>>
    /\ Awaiting(q) <=> q.phases = SubSeq(PhaseOrder, 1, 3)

\* C12: a request passes Received, Building Prompt, Dispatching, Responding in that
\* order and ends in Done or Error; if the provider's side of its upstream call goes
\* on, every request that arrived completes, with exactly one final response.
C12_RequestCompletes ==
    /\ [](\A r \in ReqIds : InPhaseOrder(reqs[r].phases) /\ OneResponse(reqs[r]))
    /\ \A r \in ReqIds : (reqs[r].pc # "idle") ~> (reqs[r].pc = "done")

W_C12 ==
    /\ \E r \in ReqIds :
          /\ reqs[r].endpoint = "stream"
          /\ reqs[r].phases = PhaseOrder \o <<"Done">>
          /\ Len(reqs[r].res.writes) >= 2
    /\ \E r \in ReqIds :
          /\ reqs[r].endpoint = "chat"
          /\ reqs[r].phases = PhaseOrder \o <<"Error">>
          /\ reqs[r].res.statusCode = 500

(***************************************************************************)
(* Concurrent requests                                                     *)
(***************************************************************************)

\* the request as its handler leaves it at its first await or its return, from the
\* endpoint and the body alone
Started(q) ==
    Dispatch([Idle EXCEPT !.endpoint = q.endpoint, !.body = q.body, !.phases = <<"Received">>])

\* the response the handler of q gives when nothing but q's body, the credential and
\* the outcome of q's own upstream call is known
OwnResponse(q) ==
    LET start == Started(q)
    IN  CASE start.pc = "done" -> start.res
          [] start.pc # "done" /\ q.up.result = "returned" ->
               (CASE q.endpoint = "chat"    -> ChatResolved(start, ExtractText(q.up.data))
                  [] q.endpoint = "explain" -> ExplainResolved(start, ExtractText(q.up.data))
                  [] q.endpoint = "stream"  -> StreamResolved(start, ExtractText(q.up.data))).res
          [] start.pc # "done" /\ q.up.result = "threw" ->
               (CASE q.endpoint = "chat"    -> ChatRejected(start, q.up.value)
                  [] q.endpoint = "explain" -> ExplainRejected(start, q.up.value)
                  [] q.endpoint = "stream"  -> StreamRejected(start, q.up.value)).res
          [] OTHER -> NoResponse

\* C13: requests in flight at the same time share no mutable state: the response of
\* each finished request is the one its handler computes from its own body, the
\* credential and the outcome of its own upstream call; a step of the server changes
\* one request only and never the credential.
C13_Isolation ==
    /\ [](\A r \in ReqIds : reqs[r].pc = "done" => reqs[r].res = OwnResponse(reqs[r]))
    /\ [][ /\ GEMINI_API_KEY' = GEMINI_API_KEY
           /\ \A r, o \in ReqIds : (r # o /\ reqs'[r] # reqs[r]) => reqs'[o] = reqs[o] ]_vars

\* two requests to the same endpoint with the same body were in flight together and
\* got different answers, each from its own upstream call
W_C13 ==
    /\ reqs[1].endpoint = "explain" /\ reqs[2].endpoint = "explain"
    /\ reqs[1].body = reqs[2].body
    /\ reqs[1].pc = "done" /\ reqs[2].pc = "done"
    /\ reqs[1].up.data = Found(ABC)
    /\ reqs[2].up.data = NotFound
    /\ reqs[1].res.json.explanation = Str(ABC)
    /\ reqs[2].res.json.explanation = Str(Stringify(NotFound))

(***************************************************************************)
(* No timeout                                                              *)
(***************************************************************************)

\* a step of the provider's side of the call of request r
UpstreamStep(r) ==
    FetchRejects(r) \/ FetchResponds(r) \/ TextRead(r) \/ JsonRead(r) \/ JsonRejects(r)

\* C14: no timeout is applied to the upstream call: a request that waits for the
\* provider is in Dispatching with no response, fallback or error line sent, and
\* nothing but a step of its own upstream call changes it, so a request whose call
\* never returns stays there for ever.
C14_NoTimeout ==
    /\ [](\A r \in ReqIds :
            Awaiting(reqs[r]) =>
              /\ reqs[r].phases[Len(reqs[r].phases)] = "Dispatching"
              /\ reqs[r].res.sends = 0
              /\ reqs[r].res.writes = <<>>
              /\ reqs[r].res.json = NoJson
              /\ ~reqs[r].res.ended)
    /\ [][\A r \in ReqIds :
            (Awaiting(reqs[r]) /\ reqs'[r] # reqs[r]) => UpstreamStep(r)]_vars

\* the first request still waits for the provider after a later request has been
\* received, dispatched and answered
W_C14 ==
    /\ reqs[1].pc = "awaitFetch"
    /\ reqs[1].res.sends = 0
    /\ reqs[2].pc = "done"
    /\ reqs[2].fetches = 1
    /\ reqs[2].up.result = "returned"

(***************************************************************************)
(* Client disconnect on /api/explain/stream                                *)
(***************************************************************************)

\* C15: a client that disconnects from /api/explain/stream after the upstream call
\* was issued is not noticed: the disconnect changes nothing in the handler or its
\* call, the call is still the one call of the request, and (the provider answering
\* or failing) it settles and the handler runs to its end as it would have with the
\* client connected.
C15_DisconnectNotPropagated ==
    /\ [][\A r \in ReqIds :
            (r \notin disconnected /\ r \in disconnected') => reqs' = reqs]_vars
    /\ [](\A r \in disconnected :
            /\ reqs[r].fetches = 1
            /\ reqs[r].up.result \in {"pending", "returned", "threw"}
            /\ reqs[r].pc = "done" => /\ reqs[r].up.result \in {"returned", "threw"}
                                      /\ reqs[r].res = OwnResponse(reqs[r]))
    /\ \A r \in ReqIds :
          (r \in disconnected /\ Awaiting(reqs[r]))
            ~> (reqs[r].pc = "done" /\ reqs[r].up.result \in {"returned", "threw"})

\* the client left while the call was pending, the call returned and the handler
\* wrote its chunks and ended the response
W_C15 ==
    \E r \in disconnected :
        /\ reqs[r].endpoint = "stream"
        /\ reqs[r].pc = "done"
        /\ reqs[r].up.result = "returned"
        /\ Len(reqs[r].res.writes) >= 2
        /\ reqs[r].res.ended

(***************************************************************************)
(* Empty chunks                                                            *)
(***************************************************************************)

\* C16: every chunk that /api/explain/stream writes is a non-empty string: whatever
\* text the upstream call returned, no write of the handler is a bare line feed.
\* (Violated: a text of white space only is truthy, so `if (buf)` lets it through
\* and `buf.trim()` pushes the empty chunk.)
CX_C16_NoEmptyChunk ==
    \A r \in ReqIds :
        LET q == reqs[r]
        IN  (q.endpoint = "stream" /\ q.up.result = "returned")
              => \A i \in 1..Len(q.res.writes) : q.res.writes[i] # <<"\n">>

====
